---- MODULE Spec2Model ----
(***************************************************************************)
(* A model of the triposo_api client library: the field mapper of          *)
(* models.py (ApiObject._build / _get_from_dict), the record constructors  *)
(* (Location, PointOfInterest, DayPlan, Itinerary, ItineraryItem), record  *)
(* equality (ApiObject.__eq__), the api_method decorator, and the fetch    *)
(* path of api.py (__get_data, __build_response, __get_multiple, __pager,  *)
(* search).                                                                *)
(*                                                                         *)
(* Python values are tagged records:                                       *)
(*   None / JSON null   [t |-> "null"]                                     *)
(*   int                [t |-> "num",  n |-> 1]                            *)
(*   str                [t |-> "str",  s |-> <<"x">>]   (its characters)   *)
(*   list               [t |-> "list", l |-> <<...>>]                      *)
(*   dict               [t |-> "obj",  o |-> [key |-> value]]              *)
(*   record instance    [t |-> "inst", cls |-> "Location", dict |-> ...]   *)
(*   the Api handle     [t |-> "api"]                                      *)
(*   bool               [t |-> "bool", b |-> TRUE]                         *)
(* The evaluation of a Python expression is [ok |-> TRUE, val |-> v] or    *)
(* [ok |-> FALSE, exc |-> "TypeError"] when it raises.                     *)
(***************************************************************************)
EXTENDS Integers, Sequences, FiniteSets, TLC

VARIABLES op, arg, out, gen, page, count, pending, yielded, fetched

vars == <<op, arg, out, gen, page, count, pending, yielded, fetched>>

-----------------------------------------------------------------------------
(* Python values *)

Null == [t |-> "null"]

Num(n) == [t |-> "num", n |-> n]

Str(s) == [t |-> "str", s |-> s]

List(l) == [t |-> "list", l |-> l]

Obj(o) == [t |-> "obj", o |-> o]

Inst(cls, dict) == [t |-> "inst", cls |-> cls, dict |-> dict]

ApiHandle == [t |-> "api"]

Bool(b) == [t |-> "bool", b |-> b]

Ok(v) == [ok |-> TRUE, val |-> v]

Raise(e) == [ok |-> FALSE, exc |-> e]

(* A key used to subscript a value: a str or an int. *)
SKey(s) == [k |-> "str", s |-> s]

IKey(i) == [k |-> "int", i |-> i]

(* Python truthiness of a value: "not data" is Falsy(data). *)
Falsy(v) ==
    \/ v.t = "null"
    \/ v.t = "num" /\ v.n = 0
    \/ v.t = "str" /\ v.s = <<>>
    \/ v.t = "list" /\ v.l = <<>>
    \/ v.t = "obj" /\ DOMAIN v.o = {}

(* d[k] for the built-in types: a dict raises KeyError for a key it does   *)
(* not hold, a list or str takes an int and raises IndexError out of range *)
(* and TypeError for a str key, any other value is not subscriptable.      *)
GetItem(d, k) ==
    CASE d.t = "obj" ->
           IF k.k = "str" /\ k.s \in DOMAIN d.o THEN Ok(d.o[k.s]) ELSE Raise("KeyError")
      [] d.t = "list" ->
           IF k.k # "int" THEN Raise("TypeError")
           ELSE IF k.i + 1 \in DOMAIN d.l THEN Ok(d.l[k.i + 1]) ELSE Raise("IndexError")
      [] d.t = "str" ->
           IF k.k # "int" THEN Raise("TypeError")
           ELSE IF k.i + 1 \in DOMAIN d.s THEN Ok(Str(<<d.s[k.i + 1]>>)) ELSE Raise("IndexError")
      [] OTHER -> Raise("TypeError")

-----------------------------------------------------------------------------
(* models.py: the field mapper *)

(* A path of an attribute map: one key, or a list/tuple of keys. *)
Single(key) == [p |-> "single", key |-> key]

Keys(ks) == [p |-> "seq", keys |-> ks]

(* The for loop of _get_from_dict: data_dict = data_dict[k] for each k. *)
RECURSIVE WalkKeys(_, _)
WalkKeys(data_dict, ks) ==
    LET Step(r) == IF r.ok THEN WalkKeys(r.val, Tail(ks)) ELSE r
    IN  IF ks = <<>> THEN Ok(data_dict) ELSE Step(GetItem(data_dict, Head(ks)))

_get_from_dict(data_dict, map_list) ==
    IF map_list.p = "seq"
    THEN WalkKeys(data_dict, map_list.keys)
    ELSE GetItem(data_dict, map_list.key)

(* self.__dict__.update({key: value}) *)
DictUpdate(dict, key, value) ==
    [n \in DOMAIN dict \cup {key} |-> IF n = key THEN value ELSE dict[n]]

(* The caught exceptions of the try block of _build. *)
BuildCaught == {"KeyError"}

(* The loop of _build over self.attrs.items(), in insertion order: the     *)
(* __dict__ reached, and the exception that left the loop, if any.         *)
RECURSIVE BuildLoop(_, _, _)
BuildLoop(dict, attrs, model_json) ==
    LET Step(name, r) ==
            IF r.ok
            THEN BuildLoop(DictUpdate(dict, name, r.val), Tail(attrs), model_json)
            ELSE IF r.exc \in BuildCaught
                 THEN BuildLoop(DictUpdate(dict, name, Null), Tail(attrs), model_json)
                 ELSE [dict |-> dict, exc |-> r.exc]
    IN  IF attrs = <<>> THEN [dict |-> dict, exc |-> "none"]
        ELSE Step(Head(attrs).name, _get_from_dict(model_json, Head(attrs).path))

(* ApiObject.__init__: self._thumbnail = {} *)
ApiObjectInit == [n \in {"_thumbnail"} |-> Obj(<<>>)]

(* ApiObject._build: the __dict__ it leaves and the exception it raises. *)
_build(dict, attrs, model_json) == BuildLoop(dict, attrs, model_json)

-----------------------------------------------------------------------------
(* models.py: the record types *)

(* One entry of self.attrs whose path is a single str key. *)
Attr(name, key) == [name |-> name, path |-> Single(SKey(key))]

LocationAttrs ==
    << Attr("id_", "id"), Attr("country_id", "country_id"),
       Attr("country_code", "country_code"), Attr("intro", "intro"),
       Attr("name", "name"), Attr("parent_id", "parent_id"),
       Attr("score", "score"), Attr("snippet", "snippet"),
       Attr("tag_labels", "tag_labels"), Attr("type", "type") >>

DayPlanAttrs ==
    << Attr("seed", "seed"), Attr("_location", "location"),
       Attr("_hotel", "hotel"), Attr("_days", "days") >>

PointOfInterestAttrs ==
    << Attr("id_", "id"), Attr("name", "name"), Attr("price", "price_tier"),
       Attr("intro", "intro"), Attr("location_id", "location_id"),
       Attr("score", "score"), Attr("snippet", "snippet"),
       Attr("tag_labels", "tag_labels") >>

ItineraryAttrs == << Attr("date", "date"), Attr("_items", "itinerary_items") >>

ItineraryItemAttrs ==
    << Attr("description", "description"), Attr("title", "title"),
       Attr("_poi", "poi") >>

TagAttrs ==
    << Attr("tour_count", "tour_count"), Attr("article_count", "article_count"),
       Attr("label", "label"), Attr("location_id", "location_id"),
       Attr("name", "name"), Attr("poi_count", "poi_count"),
       Attr("score", "score"), Attr("short_name", "short_name"),
       Attr("snippet", "snippet"), Attr("type", "type") >>

(* A constructor that is super().__init__(), self._build(json) and         *)
(* self._api = api: the instance, or the exception _build let through.     *)
PlainNew(cls, attrs, json, api) ==
    LET Rest(b) ==
            IF b.exc # "none" THEN Raise(b.exc)
            ELSE Ok(Inst(cls, DictUpdate(b.dict, "_api", api)))
    IN  Rest(_build(ApiObjectInit, attrs, json))

Location(location_json, api) == PlainNew("Location", LocationAttrs, location_json, api)

PointOfInterest(poi_json, api) ==
    PlainNew("PointOfInterest", PointOfInterestAttrs, poi_json, api)

Tag(tag_json, api) == PlainNew("Tag", TagAttrs, tag_json, api)

(* "for x in v": the elements visited, or TypeError for a value that is    *)
(* not iterable.  A str gives its characters and a dict its keys (each a   *)
(* str, whose text is kept as one character).  The keys of a dict are      *)
(* taken in one fixed order.                                               *)
RECURSIVE SetToSeq(_)
SetToSeq(S) ==
    LET Put(x) == <<x>> \o SetToSeq(S \ {x})
    IN  IF S = {} THEN <<>> ELSE Put(CHOOSE y \in S : TRUE)

Iter(v) ==
    LET Chars(s) == [i \in DOMAIN s |-> Str(<<s[i]>>)]
    IN  CASE v.t = "list" -> Ok(v.l)
          [] v.t = "str" -> Ok(Chars(v.s))
          [] v.t = "obj" -> Ok(Chars(SetToSeq(DOMAIN v.o)))
          [] OTHER -> Raise("TypeError")

(* The try of ItineraryItem.__init__: self.poi = PointOfInterest(self._poi) *)
(* is the only assignment of self.poi, and "except Exception" skips it.     *)
ItineraryItemPoi(dict) ==
    LET Set(p) == IF p.ok THEN DictUpdate(dict, "poi", p.val) ELSE dict
    IN  Set(PointOfInterest(dict["_poi"], Null))

ItineraryItem(itinerary_item_json, api) ==
    LET Rest(b) ==
            IF b.exc # "none" THEN Raise(b.exc)
            ELSE Ok(Inst("ItineraryItem",
                         ItineraryItemPoi(DictUpdate(b.dict, "_api", api))))
    IN  Rest(_build(ApiObjectInit, ItineraryItemAttrs, itinerary_item_json))

(* The for loop of Itinerary.__init__ once the iterator is made:           *)
(* self.items.append(ItineraryItem(item)) until one constructor raises.    *)
RECURSIVE ItemsLoop(_, _)
ItemsLoop(items, rest) ==
    LET Step(r) == IF r.ok THEN ItemsLoop(Append(items, r.val), Tail(rest)) ELSE items
    IN  IF rest = <<>> THEN items ELSE Step(ItineraryItem(Head(rest), Null))

(* self.items = [] and the try of Itinerary.__init__. *)
ItineraryItems(dict) ==
    LET Loop(it) == IF it.ok THEN ItemsLoop(<<>>, it.val) ELSE <<>>
    IN  DictUpdate(dict, "items", List(Loop(Iter(dict["_items"]))))

Itinerary(itinerary_json, api) ==
    LET Rest(b) ==
            IF b.exc # "none" THEN Raise(b.exc)
            ELSE Ok(Inst("Itinerary", ItineraryItems(DictUpdate(b.dict, "_api", api))))
    IN  Rest(_build(ApiObjectInit, ItineraryAttrs, itinerary_json))

(* The for loop of the third try of DayPlan.__init__:                      *)
(* self.day.append(Itinerary(day)) until one constructor raises.           *)
RECURSIVE DaysLoop(_, _)
DaysLoop(day, rest) ==
    LET Step(r) == IF r.ok THEN DaysLoop(Append(day, r.val), Tail(rest)) ELSE day
    IN  IF rest = <<>> THEN day ELSE Step(Itinerary(Head(rest), Null))

(* What a try of DayPlan.__init__ leaves in a slot that was None. *)
SlotOf(r) == IF r.ok THEN r.val ELSE Null

(* The three slots built in one try: the first constructor that raises     *)
(* leaves the slots after it as they were.                                 *)
DayPlanSlotsInOneTry(dict) ==
    LET Loop(it) == IF it.ok THEN DaysLoop(<<>>, it.val) ELSE <<>>
        Days(loc, hot) ==
            [location |-> SlotOf(loc),
             hotel |-> IF loc.ok THEN SlotOf(hot) ELSE Null,
             day |-> IF loc.ok /\ hot.ok THEN List(Loop(Iter(dict["_days"])))
                     ELSE List(<<>>)]
    IN  Days(Location(dict["_location"], Null), PointOfInterest(dict["_hotel"], Null))

(* self.day, self.location, self.hotel of DayPlan.__init__: set to [],     *)
(* None, None and then each built in a try of its own.                     *)
DayPlanSlots(dict) ==
    LET Loop(it) == IF it.ok THEN DaysLoop(<<>>, it.val) ELSE <<>>
    IN  [day |-> List(Loop(Iter(dict["_days"]))),
         location |-> SlotOf(Location(dict["_location"], Null)),
         hotel |-> SlotOf(PointOfInterest(dict["_hotel"], Null))]

DayPlan(dayplan_json, api) ==
    LET Slots(dict, s) ==
            DictUpdate(DictUpdate(DictUpdate(dict, "day", s.day),
                                  "location", s.location), "hotel", s.hotel)
        Fill(dict) == Slots(dict, DayPlanSlots(dict))
        Rest(b) ==
            IF b.exc # "none" THEN Raise(b.exc)
            ELSE Ok(Inst("DayPlan", Fill(DictUpdate(b.dict, "_api", api))))
    IN  Rest(_build(ApiObjectInit, DayPlanAttrs, dayplan_json))

(* The classes the module models defines. *)
ModelClasses ==
    {"Location", "DayPlan", "PointOfInterest", "Itinerary", "ItineraryItem", "Tag"}

(* model_class(json, api) *)
New(model_class, json, api) ==
    CASE model_class = "Location" -> Location(json, api)
      [] model_class = "DayPlan" -> DayPlan(json, api)
      [] model_class = "PointOfInterest" -> PointOfInterest(json, api)
      [] model_class = "Itinerary" -> Itinerary(json, api)
      [] model_class = "ItineraryItem" -> ItineraryItem(json, api)
      [] model_class = "Tag" -> Tag(json, api)

(* self.attrs of an instance of the class: every __init__ sets it to the   *)
(* same literal.                                                           *)
AttrsOf(cls) ==
    CASE cls = "Location" -> LocationAttrs
      [] cls = "DayPlan" -> DayPlanAttrs
      [] cls = "PointOfInterest" -> PointOfInterestAttrs
      [] cls = "Itinerary" -> ItineraryAttrs
      [] cls = "ItineraryItem" -> ItineraryItemAttrs
      [] cls = "Tag" -> TagAttrs

(* type(v): the class of an instance, and the built-in type of any other   *)
(* value.                                                                  *)
TypeOf(v) == IF v.t = "inst" THEN v.cls ELSE v.t

(* dict((k, self.__dict__[k]) for k in self.attrs.keys()) *)
MappedDict(self) ==
    LET attrs == AttrsOf(self.cls)
    IN  [k \in {attrs[i].name : i \in DOMAIN attrs} |-> self.dict[k]]

(* Equality of the type and of the whole __dict__ of the two instances. *)
EqWholeDict(self, other) == Bool(TypeOf(self) = TypeOf(other) /\ self.dict = other.dict)

(* ApiObject.__eq__: "and" does not evaluate the dicts when the types      *)
(* differ.                                                                 *)
__eq__(self, other) ==
    Bool(TypeOf(self) = TypeOf(other) /\ MappedDict(self) = MappedDict(other))

(* obj.name = value on an instance. *)
SetAttr(obj, name, value) == Inst(obj.cls, DictUpdate(obj.dict, name, value))

(* The call of func with args and kwargs, for the functions wrapped here:  *)
(* one returns its arguments after self and its named arguments, one      *)
(* returns None, and one makes a request that fails.                       *)
Call(func, args, kwargs) ==
    CASE func = "returns_arguments" -> Ok(List(Append(Tail(args), kwargs)))
      [] func = "returns_none" -> Ok(Null)
      [] func = "raises" -> Raise("HTTPError")

(* What a call of api_call leaves: what it evaluates to, and the calls of  *)
(* func that were made, each with the arguments func received.             *)
CallOutcome(res, calls) == [res |-> res, calls |-> calls]

(* api_call without the test of self._api. *)
ApiCallUnchecked(func, args, kwargs) ==
    CallOutcome(Call(func, args, kwargs), <<[args |-> args, kwargs |-> kwargs]>>)

(* The api_call that api_method(func) returns, called with args and        *)
(* kwargs, args[0] being a record.                                         *)
api_call(func, args, kwargs) ==
    IF ~Falsy(args[1].dict["_api"])
    THEN CallOutcome(Call(func, args, kwargs), <<[args |-> args, kwargs |-> kwargs]>>)
    ELSE CallOutcome(Raise("NotImplementedError"), <<>>)

-----------------------------------------------------------------------------
(* api.py: the fetch path.  A response of the session is its status code   *)
(* and what response.json() evaluates to: the decoded body, or ValueError  *)
(* for a body that is not JSON.                                            *)

Response(status_code, json) == [status_code |-> status_code, json |-> json]

(* requests' Response.raise_for_status(): HTTPError for a 4xx or 5xx       *)
(* status, and a plain return for any other.                               *)
raise_for_status(status_code) ==
    IF 400 <= status_code /\ status_code < 600 THEN Raise("HTTPError") ELSE Ok(Null)

(* e[k] where e is the evaluation of the subscripted expression. *)
Subscript(e, k) == IF e.ok THEN GetItem(e.val, k) ELSE e

(* The try of __get_data without its except clause: what the subscripted   *)
(* expression raises leaves the function.                                  *)
GetDataTryUncaught(response) ==
    Subscript(Subscript(response.json, SKey("results")), IKey(0))

(* The try of __get_data: return response.json()['results'][0], and a      *)
(* ValueError passes to the end of the function, which returns None.       *)
GetDataTry(response) ==
    LET Except(e) == IF ~e.ok /\ e.exc = "ValueError" THEN Ok(Null) ELSE e
    IN  Except(Subscript(Subscript(response.json, SKey("results")), IKey(0)))

__get_data(response) ==
    LET Then(raised) == IF raised.ok THEN GetDataTry(response) ELSE raised
    IN  IF response.status_code = 401
        THEN Then(raise_for_status(response.status_code))
        ELSE IF response.status_code = 404
             THEN Ok(Null)
             ELSE IF response.status_code # 200
                  THEN Then(raise_for_status(response.status_code))
                  ELSE Then(Ok(Null))

__build_response(response, model_class) ==
    LET Rest(data) ==
            IF ~data.ok THEN data
            ELSE IF Falsy(data.val) THEN Ok(Null)
                 ELSE New(model_class, data.val, ApiHandle)
    IN  Rest(__get_data(response))

(* The for loop of __get_multiple.  key is None (Null) or a str key. *)
RECURSIVE MultipleLoop(_, _, _, _)
MultipleLoop(model_class, key, items, rest) ==
    LET Added(r) ==
            IF r.ok THEN MultipleLoop(model_class, key, Append(items, r.val), Tail(rest))
            ELSE r
        Made(item) == IF item.ok THEN Added(New(model_class, item.val, ApiHandle)) ELSE item
    IN  IF rest = <<>> THEN Ok(List(items))
        ELSE Made(IF key # Null THEN GetItem(Head(rest), key) ELSE Ok(Head(rest)))

__get_multiple(model_class, response, key) ==
    LET Loop(it) == IF it.ok THEN MultipleLoop(model_class, key, <<>>, it.val) ELSE it
        Rest(data) ==
            IF ~data.ok THEN data
            ELSE IF Falsy(data.val) THEN Ok(Null)
                 ELSE Loop(Iter(data.val))
    IN  Rest(__get_data(response))

(* models.<name>: the class, or AttributeError for a name models.py does   *)
(* not define.                                                             *)
ModelsAttr(name) == IF name \in ModelClasses THEN Ok(name) ELSE Raise("AttributeError")

(* search: after __get_data returns, the mapping literal evaluates         *)
(* models.Episode, which models.py does not define, so the loop over data  *)
(* is never entered.                                                       *)
search(response) ==
    LET Mapping(m) == IF m.ok THEN Raise("NotModelled") ELSE m
        Rest(data) == IF ~data.ok THEN data ELSE Mapping(ModelsAttr("Episode"))
    IN  Rest(__get_data(response))

(* The attributes of an Api instance: the methods of the class under their *)
(* names (a __name of the class body is stored as _Api__name) and the      *)
(* session set by __init__.                                                *)
ApiAttrs ==
    {"__init__", "_Api__session", "_Api__get_data", "_Api__build_response",
     "_Api__get_multiple", "_Api__pager", "location", "episodes", "season",
     "season_episodes", "show_seasons", "shows", "search"}

(* self._api.<name>: AttributeError for a name the instance does not have. *)
ApiGetAttr(name) == IF name \in ApiAttrs THEN Ok(name) ELSE Raise("AttributeError")

(* api_tests.py, tst: self._api._arguments_from_kwargs(kwargs).  The       *)
(* attribute is looked up before the call, and Api has no attribute of     *)
(* that name, so nothing is called.                                        *)
tst(kwargs) ==
    LET Called(f) == IF f.ok THEN Raise("NotModelled") ELSE f
    IN  Called(ApiGetAttr("_arguments_from_kwargs"))

(* A page of fewer than two items also ends the sequence. *)
PageEndsWhenShort(items) == Falsy(items) \/ Len(items.l) < 2

(* __pager: "if items:" is false: the while loop breaks. *)
PageEnds(items) == Falsy(items)

(* The page index moves on by two. *)
SkipPage(p) == p + 2

(* __pager: page += 1 *)
NextPage(p) == p + 1

-----------------------------------------------------------------------------
(* The documents and attribute maps the operations are applied to *)

MaxPath == 2

MaxItems == 2

MaxDays == 2

(* All sequences over S of length at most n. *)
SeqsUpTo(S, n) == UNION {[1..m -> S] : m \in 0..n}

(* All dicts with keys among K and values in V. *)
Dicts(K, V) == {Obj(f) : f \in UNION {[S -> V] : S \in SUBSET K}}

(* d with key k bound to each of the values vs, and d itself (k missing). *)
WithKey(ds, k, vs) ==
    ds \cup {Obj([n \in DOMAIN d.o \cup {k} |-> IF n = k THEN v ELSE d.o[n]]) :
                d \in ds, v \in vs}

Scalars == {Null, Num(1), Str(<<"x">>)}

Shallow == Scalars \cup {List(<<>>), List(<<Num(1)>>)} \cup Dicts({"a", "b"}, Scalars)

(* Documents of the field mapper: non-mappings, and mappings nested twice. *)
GenDocs == Shallow \cup WithKey(Dicts({"b"}, Scalars), "a", Shallow)

GenKeys == {SKey("a"), SKey("b"), IKey(0)}

GenPaths ==
    {Single(k) : k \in GenKeys} \cup {Keys(ks) : ks \in SeqsUpTo(GenKeys, MaxPath)}

(* Attribute maps of one attribute p, or of p followed by q. *)
GenAttrMaps ==
    {<<[name |-> "p", path |-> pp]>> : pp \in GenPaths}
    \cup {<<[name |-> "p", path |-> pp], [name |-> "q", path |-> Single(k)]>> :
             pp \in GenPaths, k \in GenKeys}

(* Values found where a sub-document is expected. *)
NonObjects == {Null, Num(1), Str(<<"x">>), List(<<>>)}

PlaceDoc == Obj([id |-> Str(<<"A">>), name |-> Str(<<"N">>)])

OtherPlaceDoc == Obj([id |-> Str(<<"B">>), score |-> Num(1)])

SubDocs == NonObjects \cup {Obj(<<>>), PlaceDoc}

ItemDocs ==
    NonObjects
    \cup WithKey(WithKey({Obj(<<>>), Obj([title |-> Str(<<"t">>)])},
                         "description", {Str(<<"d">>)}),
                 "poi", SubDocs)

GoodItem == Obj([title |-> Str(<<"t">>), description |-> Str(<<"d">>), poi |-> PlaceDoc])

SomeItems ==
    {GoodItem, Obj([title |-> Str(<<"t">>)]), Obj([poi |-> Str(<<"x">>)]), Str(<<"x">>), Null}

ItineraryDocs ==
    NonObjects
    \cup WithKey({Obj(<<>>), Obj([date |-> Str(<<"d">>)])}, "itinerary_items",
                 NonObjects \cup {Obj(<<>>)} \cup {List(l) : l \in SeqsUpTo(SomeItems, MaxItems)})

SomeDays ==
    {Str(<<"x">>), Num(1), Obj(<<>>),
     Obj([date |-> Str(<<"d">>), itinerary_items |-> List(<<GoodItem>>)]),
     Obj([itinerary_items |-> List(<<Obj([title |-> Str(<<"t">>)]), GoodItem>>)])}

DayPlanDocs ==
    NonObjects
    \cup WithKey(WithKey(WithKey({Obj(<<>>), Obj([seed |-> Num(1)])},
                                 "location", SubDocs),
                         "hotel", SubDocs),
                 "days", NonObjects \cup {Obj([a |-> Num(1)])}
                         \cup {List(l) : l \in SeqsUpTo(SomeDays, MaxDays)})

(* Decoded bodies: envelopes {estimated_total, results}, and other JSON. *)
ResultLists ==
    {<<>>, <<PlaceDoc>>, <<PlaceDoc, OtherPlaceDoc>>,
     <<List(<<>>)>>, <<List(<<PlaceDoc>>)>>, <<List(<<PlaceDoc, OtherPlaceDoc>>)>>,
     <<List(<<Obj([item |-> PlaceDoc])>>)>>,
     <<List(<<Obj([item |-> PlaceDoc]), Obj([item |-> OtherPlaceDoc])>>)>>,
     <<List(<<Str(<<"x">>)>>)>>, <<Null>>, <<Num(1)>>, <<Str(<<"x">>)>>, <<Obj(<<>>)>>}

Envelope(total, results) == Obj([estimated_total |-> Num(total), results |-> List(results)])

Bodies ==
    {Envelope(n, rs) : n \in 0..2, rs \in ResultLists}
    \cup {Obj(<<>>), Obj([results |-> Null]), Obj([results |-> Obj(<<>>)]),
          List(<<PlaceDoc>>), Null}

Statuses == {200, 204, 401, 404, 500}

(* The responses given to the page fetches of a pager: every status, with  *)
(* the envelopes whose estimated_total is the length of results.           *)
PageResponses ==
    {Response(st, j) :
        st \in Statuses,
        j \in {Ok(Envelope(Len(rs), rs)) : rs \in ResultLists}
              \cup {Ok(Obj(<<>>)), Ok(Null), Raise("ValueError")}}

Responses ==
    {Response(st, j) : st \in Statuses, j \in {Ok(b) : b \in Bodies} \cup {Raise("ValueError")}}

MaxParams == 2

(* kwargs of a call: named parameters in the order given, the names        *)
(* distinct.  Names and str values are sequences of characters.            *)
Param(key, value) == [key |-> key, value |-> Str(value)]

ParamKeys == {<<"a">>, <<"b">>, <<"i", "d">>}

ParamValues == {<<"x">>, <<>>, <<"&">>, <<"x", "=", "y">>}

HelloWhyTest ==
    <<Param(<<"h", "e", "l", "l", "o">>, <<"w", "o", "r", "l", "d">>),
      Param(<<"w", "h", "y">>, <<"n", "o", "t">>),
      Param(<<"t", "e", "s", "t">>, <<"a", "r", "g">>)>>

Kwargs ==
    {kw \in SeqsUpTo({Param(k, v) : k \in ParamKeys, v \in ParamValues}, MaxParams) :
        \A i, j \in DOMAIN kw : kw[i].key = kw[j].key => i = j}
    \cup {HelloWhyTest}

(* The instances compared: Locations and PointsOfInterest of two           *)
(* documents and DayPlans of two, each made with and without an Api, and   *)
(* the DayPlans also after one of their slots was set to None.             *)
PlanDoc ==
    Obj([seed |-> Num(1), location |-> PlaceDoc, hotel |-> OtherPlaceDoc,
         days |-> List(<<Obj([date |-> Str(<<"d">>)])>>)])

OtherPlanDoc == Obj([seed |-> Num(1), location |-> PlaceDoc])

Built(results) == {r.val : r \in {x \in results : x.ok}}

ComparedPlans ==
    Built({DayPlan(d, api) : d \in {PlanDoc, OtherPlanDoc}, api \in {Null, ApiHandle}})

ComparedRecords ==
    Built({New(c, d, api) : c \in {"Location", "PointOfInterest"},
                           d \in {PlaceDoc, OtherPlaceDoc}, api \in {Null, ApiHandle}})
    \cup ComparedPlans
    \cup {SetAttr(r, slot, Null) : r \in ComparedPlans, slot \in {"location", "hotel", "day"}}

(* The calls of a wrapped method: the record it is called on, made with    *)
(* and without an Api, and the arguments after it.                         *)
MethodReceivers ==
    Built({Location(PlaceDoc, api) : api \in {Null, ApiHandle}}
         \cup {DayPlan(PlanDoc, api) : api \in {Null, ApiHandle}})

MethodArgs == {<<>>, <<Num(1)>>, <<Str(<<"x">>), Num(1)>>}

MethodKwargs == {Obj(<<>>), Obj([page |-> Num(1)])}

WrappedFuncs == {"returns_arguments", "returns_none", "raises"}

DefaultCount == 20

DefaultPage == 1

MaxFetch == 3

DocsOf(model_class) ==
    CASE model_class = "DayPlan" -> DayPlanDocs
      [] model_class = "Itinerary" -> ItineraryDocs
      [] model_class = "ItineraryItem" -> ItemDocs
      [] OTHER -> SubDocs \cup {OtherPlaceDoc}

-----------------------------------------------------------------------------
(* The operations *)

Init ==
    /\ op = "idle"
    /\ arg = Null
    /\ out = Null
    /\ gen = "none"
    /\ page = 0
    /\ count = 0
    /\ pending = <<>>
    /\ yielded = <<>>
    /\ fetched = <<>>

PagerIdle == UNCHANGED <<gen, page, count, pending, yielded, fetched>>

(* obj._build(model_json) on a fresh ApiObject whose attrs is the given map. *)
Build ==
    /\ op = "idle"
    /\ \E attrs \in GenAttrMaps, model_json \in GenDocs :
          /\ op' = "_build"
          /\ arg' = [attrs |-> attrs, model_json |-> model_json]
          /\ out' = _build(ApiObjectInit, attrs, model_json)
    /\ PagerIdle

(* model_class(json, api) *)
Construct ==
    /\ op = "idle"
    /\ \E model_class \in ModelClasses, api \in {Null, ApiHandle} :
          \E json \in DocsOf(model_class) :
             /\ op' = "new"
             /\ arg' = [model_class |-> model_class, json |-> json, api |-> api]
             /\ out' = New(model_class, json, api)
    /\ PagerIdle

(* test_arguments_from_kwargs: tst called with the named parameters *)
ArgumentsFromKwargs ==
    /\ op = "idle"
    /\ \E kwargs \in Kwargs :
          /\ op' = "_arguments_from_kwargs"
          /\ arg' = [kwargs |-> kwargs]
          /\ out' = tst(kwargs)
    /\ PagerIdle

(* self == other: Python calls type(self).__eq__(self, other). *)
Equals ==
    /\ op = "idle"
    /\ \E self \in ComparedRecords, other \in ComparedRecords \cup {Null, PlaceDoc} :
          /\ op' = "__eq__"
          /\ arg' = [self |-> self, other |-> other]
          /\ out' = Ok(__eq__(self, other))
    /\ PagerIdle

(* record.method(...) for a method decorated with api_method *)
ApiMethodCall ==
    /\ op = "idle"
    /\ \E func \in WrappedFuncs, self \in MethodReceivers,
          rest \in MethodArgs, kwargs \in MethodKwargs :
          /\ op' = "api_call"
          /\ arg' = [func |-> func, args |-> <<self>> \o rest, kwargs |-> kwargs]
          /\ out' = api_call(func, <<self>> \o rest, kwargs)
    /\ PagerIdle

(* self.__get_data(url, args) *)
GetData ==
    /\ op = "idle"
    /\ \E response \in Responses :
          /\ op' = "__get_data"
          /\ arg' = [response |-> response]
          /\ out' = __get_data(response)
    /\ PagerIdle

(* self.__build_response(path, model_class) *)
BuildResponse ==
    /\ op = "idle"
    /\ \E response \in Responses, model_class \in ModelClasses :
          /\ op' = "__build_response"
          /\ arg' = [response |-> response, model_class |-> model_class]
          /\ out' = __build_response(response, model_class)
    /\ PagerIdle

(* self.__get_multiple(model_class, path, key) *)
GetMultiple ==
    /\ op = "idle"
    /\ \E response \in Responses, model_class \in ModelClasses,
          key \in {Null, SKey("item")} :
          /\ op' = "__get_multiple"
          /\ arg' = [response |-> response, model_class |-> model_class, key |-> key]
          /\ out' = __get_multiple(model_class, response, key)
    /\ PagerIdle

(* api.search(query) *)
Search ==
    /\ op = "idle"
    /\ \E response \in Responses :
          /\ op' = "search"
          /\ arg' = [response |-> response]
          /\ out' = search(response)
    /\ PagerIdle

(* self.__pager(model_class, path, count, page, key=...): the generator    *)
(* object is made and none of its body has run.                            *)
PagerStart ==
    /\ op = "idle"
    /\ \E model_class \in {"Location", "PointOfInterest"}, key \in {Null, SKey("item")},
          c \in {2, DefaultCount}, p \in {DefaultPage, DefaultPage + 2} :
          /\ op' = "__pager"
          /\ arg' = [model_class |-> model_class, key |-> key, count |-> c, page |-> p]
          /\ page' = p
          /\ count' = c
    /\ gen' = "created"
    /\ UNCHANGED <<out, pending, yielded, fetched>>

(* What one run of the while loop's fetch leaves, items being the          *)
(* evaluation of self.__get_multiple(model_class, path, page=p, count=...) *)
(* for the response the session gave.                                      *)
PagerFetched(p, response, items) ==
    /\ page' = p
    /\ fetched' = Append(fetched,
                         [page |-> p, count |-> count, delivered |-> Len(yielded),
                          status_code |-> response.status_code,
                          decoded |-> response.json.ok,
                          items |-> IF items.ok /\ items.val.t = "list"
                                    THEN items.val.l ELSE <<>>,
                          raised |-> ~items.ok])
    /\ IF ~items.ok
       THEN /\ gen' = "raised"
            /\ out' = items
            /\ UNCHANGED <<pending, yielded>>
       ELSE IF PageEnds(items.val)
            THEN /\ gen' = "exhausted"
                 /\ out' = Raise("StopIteration")
                 /\ UNCHANGED <<pending, yielded>>
            ELSE /\ gen' = "suspended"
                 /\ out' = Ok(Head(items.val.l))
                 /\ yielded' = Append(yielded, Head(items.val.l))
                 /\ pending' = Tail(items.val.l)

(* next(generator): the body runs to its next yield, or to its end. *)
PagerNext ==
    /\ op = "__pager"
    /\ UNCHANGED <<op, arg, count>>
    /\ \/ /\ gen \in {"exhausted", "raised"}
          /\ out' = Raise("StopIteration")
          /\ UNCHANGED <<gen, page, pending, yielded, fetched>>
       \/ /\ gen = "suspended"
          /\ pending # <<>>
          /\ out' = Ok(Head(pending))
          /\ yielded' = Append(yielded, Head(pending))
          /\ pending' = Tail(pending)
          /\ UNCHANGED <<gen, page, fetched>>
       \/ /\ gen = "created" \/ (gen = "suspended" /\ pending = <<>>)
          /\ Len(fetched) < MaxFetch
          /\ \E response \in PageResponses :
                PagerFetched(IF gen = "created" THEN page ELSE NextPage(page), response,
                             __get_multiple(arg.model_class, response, arg.key))

Next ==
    \/ Build
    \/ Construct
    \/ ArgumentsFromKwargs
    \/ Equals
    \/ ApiMethodCall
    \/ GetData
    \/ BuildResponse
    \/ GetMultiple
    \/ Search
    \/ PagerStart
    \/ PagerNext

Spec == Init /\ [][Next]_vars

-----------------------------------------------------------------------------
(* The field mapper *)

(* The value reached by following path in the document d, and the absent   *)
(* marker None when a step of the path cannot be taken.                    *)
Reach(d, path) ==
    LET Found(r) == IF r.ok THEN r.val ELSE Null
    IN  Found(_get_from_dict(d, path))

AttrNames(attrs) == {attrs[i].name : i \in DOMAIN attrs}

(* C1: for every attribute map and every document, _build does not raise,  *)
(* and after it every attribute of the map is set on the object, to the    *)
(* resolved value or to None.                                              *)
BuildNeverRaises ==
    op = "_build" =>
        /\ out.exc = "none"
        /\ AttrNames(arg.attrs) \subseteq DOMAIN out.dict

(* C2: after a record is built from a document, each mapped field is the   *)
(* value its path reaches in the document, unchanged, or None when the     *)
(* path is unreachable, whatever the other attributes resolve to.          *)
BuildRoundTrip ==
    op = "_build" =>
        \A i \in DOMAIN arg.attrs :
            /\ arg.attrs[i].name \in DOMAIN out.dict
            /\ out.dict[arg.attrs[i].name] = Reach(arg.model_json, arg.attrs[i].path)

-----------------------------------------------------------------------------
(* The fetch path *)

(* A decoded body {estimated_total: n, results: [...]} whose results are   *)
(* all non-empty JSON objects.                                             *)
IsEnvelope(json) ==
    /\ json.ok
    /\ json.val.t = "obj"
    /\ DOMAIN json.val.o = {"estimated_total", "results"}
    /\ json.val.o["results"].t = "list"
    /\ \A i \in DOMAIN json.val.o["results"].l :
          /\ json.val.o["results"].l[i].t = "obj"
          /\ DOMAIN json.val.o["results"].l[i].o # {}

ResultsOf(response) == response.json.val.o["results"].l

TotalOf(response) == response.json.val.o["estimated_total"].n

(* One record of model_class for each element of results, in their order. *)
RecordsOf(model_class, results) ==
    List([i \in DOMAIN results |-> New(model_class, results[i], ApiHandle).val])

(* C3: for a successful envelope, a fetch returns one record built from    *)
(* results[0] when estimated_total is 1, and for any other estimated_total *)
(* the sequence of one record per element of results, in their order.      *)
ShapeResolution ==
    (/\ op \in {"__build_response", "__get_multiple"}
     /\ arg.response.status_code = 200
     /\ IsEnvelope(arg.response.json)
     /\ ResultsOf(arg.response) # <<>>)
    => out = IF TotalOf(arg.response) = 1
             THEN New(arg.model_class, ResultsOf(arg.response)[1], ApiHandle)
             ELSE Ok(RecordsOf(arg.model_class, ResultsOf(arg.response)))

(* The transport reports 404, or gives an envelope with no results. *)
NothingFound(response) ==
    \/ response.status_code = 404
    \/ /\ response.status_code = 200
       /\ IsEnvelope(response.json)
       /\ ResultsOf(response) = <<>>

(* C4: when the transport reports 404 or returns an empty envelope, a      *)
(* single-item query returns None and a collection query returns an empty  *)
(* sequence, and neither raises.                                           *)
NotFoundHandling ==
    /\ (op = "__build_response" /\ NothingFound(arg.response)) => out = Ok(Null)
    /\ (op \in {"__get_multiple", "search"} /\ NothingFound(arg.response))
          => out = Ok(List(<<>>))

(* C5: for every status other than 200 and 404 the operation that made the *)
(* fetch raises, and so does the pager for a page fetch.                   *)
TransportErrorsRaise ==
    /\ (/\ op \in {"__build_response", "__get_multiple", "search"}
        /\ arg.response.status_code \notin {200, 404})
          => (~out.ok /\ out.exc = "HTTPError")
    /\ op = "__pager" =>
          \A k \in DOMAIN fetched :
              fetched[k].status_code \notin {200, 404} => fetched[k].raised

(* A response with the success status whose body is not JSON. *)
Malformed(response) == response.status_code = 200 /\ ~response.json.ok

(* C11: for a 200 response whose body cannot be decoded as JSON,           *)
(* __get_data returns None and does not raise, so __build_response and     *)
(* __get_multiple return None, and a pager that fetches such a page takes  *)
(* it as a page with no items: it ends there, without raising and with     *)
(* nothing more delivered.                                                 *)
MalformedBodyIsAbsent ==
    /\ (op \in {"__get_data", "__build_response", "__get_multiple"}
        /\ Malformed(arg.response)) => out = Ok(Null)
    /\ op = "__pager" =>
          \A k \in DOMAIN fetched :
              (fetched[k].status_code = 200 /\ ~fetched[k].decoded) =>
                  /\ ~fetched[k].raised
                  /\ fetched[k].items = <<>>
                  /\ k = Len(fetched)
                  /\ gen = "exhausted"
                  /\ pending = <<>>
                  /\ Len(yielded) = fetched[k].delivered

PagerEndsAtMalformedPage ==
    /\ op = "__pager"
    /\ Len(fetched) = 2
    /\ fetched[1].items # <<>>
    /\ fetched[2].status_code = 200
    /\ ~fetched[2].decoded
    /\ gen = "exhausted"
    /\ out = Raise("StopIteration")
    /\ Len(yielded) = Len(fetched[1].items)

-----------------------------------------------------------------------------
(* The request builder *)

(* key=value for each parameter in order, with "&" between them, the       *)
(* characters of keys and values as they are.                              *)
RECURSIVE JoinParams(_)
JoinParams(kwargs) ==
    IF kwargs = <<>> THEN <<>>
    ELSE LET last == kwargs[Len(kwargs)]
             front == SubSeq(kwargs, 1, Len(kwargs) - 1)
         IN  (IF front = <<>> THEN <<>> ELSE JoinParams(front) \o <<"&">>)
             \o last.key \o <<"=">> \o last.value.s

(* C12: for every mapping of named parameters _arguments_from_kwargs       *)
(* returns the key=value pairs joined with "&" in the order of the         *)
(* mapping, no character escaped and no parameter dropped: the string      *)
(* hello=world&why=not&test=arg for {hello: world, why: not, test: arg}    *)
(* and the empty string for the empty mapping.                             *)
RequestBuilderJoins ==
    op = "_arguments_from_kwargs" =>
        /\ out = Ok(Str(JoinParams(arg.kwargs)))
        /\ arg.kwargs = <<>> => out = Ok(Str(<<>>))
        /\ arg.kwargs = HelloWhyTest =>
               out = Ok(Str(<<"h", "e", "l", "l", "o", "=", "w", "o", "r", "l", "d", "&",
                              "w", "h", "y", "=", "n", "o", "t", "&",
                              "t", "e", "s", "t", "=", "a", "r", "g">>))

-----------------------------------------------------------------------------
(* The pager *)

(* The items of the pages of a fetch log, in the order fetched. *)
RECURSIVE PageItems(_)
PageItems(log) ==
    IF log = <<>> THEN <<>>
    ELSE PageItems(SubSeq(log, 1, Len(log) - 1)) \o log[Len(log)].items

(* The pager is at its end: it broke out of the loop, or it raised. *)
PagerFinished == gen \in {"exhausted", "raised"}

(* What has been delivered and what is still to deliver of the fetched     *)
(* pages is their items, in order; only the last page fetched has no       *)
(* items; the pager is exhausted exactly when that page has none; and at   *)
(* its end every item of the pages before has been delivered.              *)
PagerDelivery ==
    op = "__pager" =>
        /\ PageItems(fetched) = yielded \o pending
        /\ \A k \in DOMAIN fetched :
               k < Len(fetched) => (fetched[k].items # <<>> /\ ~fetched[k].raised)
        /\ gen = "exhausted" <=>
               (/\ fetched # <<>>
                /\ fetched[Len(fetched)].items = <<>>
                /\ ~fetched[Len(fetched)].raised)
        /\ PagerFinished => (pending = <<>> /\ yielded = PageItems(fetched))

PagerRequestSequence ==
    op = "__pager" =>
        \A k \in DOMAIN fetched :
            /\ fetched[k].page = arg.page + k - 1
            /\ fetched[k].count = arg.count
            /\ fetched[k].delivered = Len(PageItems(SubSeq(fetched, 1, k - 1)))

PagerThirdFetch ==
    /\ op = "__pager"
    /\ arg.page = 3
    /\ Len(fetched) = 3
    /\ fetched[3].page = 5
    /\ fetched[3].delivered = 4

-----------------------------------------------------------------------------
(* The composite records *)

(* The sub-document under key k of the object d is missing, or is not a    *)
(* JSON object.                                                            *)
MissingOrMalformed(d, k) == k \notin DOMAIN d.o \/ d.o[k].t # "obj"

IsObject(v) == v.t = "obj"

(* One Itinerary for each of the day documents, in their order. *)
ItinerariesOf(days) == List([i \in DOMAIN days |-> Itinerary(days[i], Null).val])

(* The construction in arg/out is that of model_class from a JSON object. *)
Constructed(model_class) ==
    op = "new" /\ arg.model_class = model_class /\ arg.json.t = "obj"

DaysBuiltPastMalformedDay ==
    (/\ Constructed("DayPlan")
     /\ "days" \in DOMAIN arg.json.o
     /\ arg.json.o["days"].t = "list")
    => /\ out.ok
       /\ out.val.dict["day"] = ItinerariesOf(SelectSeq(arg.json.o["days"].l, IsObject))

(* C10: an ItineraryItem built from a JSON object has a poi attribute: the  *)
(* PointOfInterest of its poi sub-document, or None when that is missing   *)
(* or malformed; construction does not raise and description and title are *)
(* resolved.                                                               *)
ItemPoiSlotAlwaysSet ==
    Constructed("ItineraryItem") =>
        /\ out.ok
        /\ "poi" \in DOMAIN out.val.dict
        /\ out.val.dict["poi"] =
               IF MissingOrMalformed(arg.json, "poi") THEN Null
               ELSE PointOfInterest(arg.json.o["poi"], Null).val
        /\ out.val.dict["description"] = Reach(arg.json, Single(SKey("description")))
        /\ out.val.dict["title"] = Reach(arg.json, Single(SKey("title")))

-----------------------------------------------------------------------------
(* Record equality *)

(* The names of the attribute map of the class. *)
MappedNames(cls) == AttrNames(AttrsOf(cls))

(* C13: self == other is True exactly when other is a record of the same   *)
(* class as self and each field named in the attribute map has the same    *)
(* value in both; what _api and the constructed slots (location, hotel,    *)
(* day of a DayPlan) hold makes no difference.                             *)
RecordEquality ==
    op = "__eq__" =>
        /\ out.ok
        /\ out.val.t = "bool"
        /\ out.val.b <=>
               /\ arg.other.t = "inst"
               /\ arg.other.cls = arg.self.cls
               /\ \A k \in MappedNames(arg.self.cls) :
                      arg.self.dict[k] = arg.other.dict[k]

EqualPlansWithDifferentSlots ==
    /\ op = "__eq__"
    /\ arg.self.cls = "DayPlan"
    /\ arg.other.t = "inst"
    /\ arg.other.cls = "DayPlan"
    /\ arg.self.dict["_api"] # arg.other.dict["_api"]
    /\ arg.self.dict["hotel"] # arg.other.dict["hotel"]
    /\ arg.self.dict["hotel"].t = "inst"
    /\ out = Ok(Bool(TRUE))

-----------------------------------------------------------------------------
(* The capability check *)

(* C14: a method wrapped by api_method and called on a record built        *)
(* without an Api raises NotImplementedError and the wrapped function is   *)
(* not called; called on a record that has an Api, the wrapped function is *)
(* called once, with the same arguments, and the call evaluates to what    *)
(* the function returns or raises.                                         *)
CapabilityCheck ==
    op = "api_call" =>
        /\ arg.args[1].dict["_api"] = Null =>
               /\ out.res = Raise("NotImplementedError")
               /\ out.calls = <<>>
        /\ arg.args[1].dict["_api"] = ApiHandle =>
               /\ out.calls = <<[args |-> arg.args, kwargs |-> arg.kwargs]>>
               /\ out.res = Call(arg.func, arg.args, arg.kwargs)

MethodRefusedWithoutApi ==
    /\ op = "api_call"
    /\ arg.func = "returns_arguments"
    /\ arg.args[1].cls = "DayPlan"
    /\ arg.args[1].dict["_api"] = Null
    /\ Len(arg.args) = 3
    /\ out.res = Raise("NotImplementedError")
    /\ out.calls = <<>>

====
